---- MODULE Spec2Model ----
(***************************************************************************)
(* Model of src/src/lib.rs: Database<T> = Arc<RwLock<Inner<T>>>, its       *)
(* ReadGuard / WriteGuard, and the persistence thread spawned by           *)
(* Database::new_custom.                                                   *)
(*                                                                         *)
(* The persistence thread does not take the RwLock: it builds a `&mut      *)
(* Inner<T>` from the raw address of the lock's UnsafeCell (lines 32-38)   *)
(* and reads `dirty`, reads `data` (inside save) and writes `dirty`        *)
(* through it.  Those accesses race with the foreground guards.  The       *)
(* non-atomic load of `dirty` at line 39 is therefore modelled with both   *)
(* outcomes a build can produce: reloading it on every iteration, or       *)
(* folding the load across the back edge (on both back edges the thread    *)
(* itself knows dirty = false), which leaves a loop that polls once.       *)
(***************************************************************************)
EXTENDS Integers, FiniteSets, Sequences, TLC

\* ---- bounds ----
NumThreads == 2          \* foreground threads holding a clone of the handle
MaxVal     == 2          \* payload values are 0..MaxVal
MaxWrites  == 2          \* write guards acquired in a run
MaxMut     == 2          \* assignments through deref_mut under one guard

Threads == 1..NumThreads
Values  == 0..MaxVal
None    == 0             \* no thread holds the write lock
NoVal   == -1            \* save has not observed any value yet

VARIABLES
  data,       \* Inner.data
  dirty,      \* Inner.dirty
  writer,     \* RwLock: thread holding the write lock, or None
  readers,    \* RwLock: threads holding a read lock
  poisoned,   \* RwLock: poison flag
  tpc,        \* foreground thread position
  panicking,  \* foreground thread is unwinding
  lpc,        \* persistence thread position
  polled,     \* persistence thread has completed one iteration
  foldLoad,   \* the build folds the racy load of dirty across iterations
  acquired,   \* history: write guards acquired
  releases,   \* history: write guards released
  committed,  \* history: data as left by the last released write guard
  muts,       \* history: assignments made under the current write guard
  marks,      \* history: stores dirty := true made by the current write guard
  lastRel,    \* history: how the last write guard was released
  saveCalls,  \* history: invocations of save
  arg,        \* history: data behind the reference at the last invocation
  persisted,  \* history: data read by the last save that returned
  saveFails,  \* history: invocations of save that failed
  everFailed, \* history: some get / get_mut panicked on a poisoned lock
  everRead,   \* history: some ReadGuard was released
  relAtRead,  \* history: guards dropped when save last read the value
  file        \* what Database::new found at its path

vars == <<data, dirty, writer, readers, poisoned, tpc, panicking, lpc, polled,
          foldLoad, acquired, releases, committed, muts, marks, lastRel,
          saveCalls, arg, persisted, saveFails, everFailed, everRead,
          relAtRead, file>>

lockVars == <<writer, readers, poisoned>>
loopVars == <<lpc, polled, saveCalls, arg, persisted, saveFails, relAtRead>>
histVars == <<acquired, releases, committed, muts, marks, lastRel>>

\* T::default() of the payload (line 20); the test's payload is a u32.
Default == 0

\* What File::open and bincode::deserialize_from make of the path.
Files ==
  {[kind |-> "missing", val |-> NoVal], [kind |-> "corrupt", val |-> NoVal]}
    \cup {[kind |-> "valid", val |-> v] : v \in Values}

\* Variant of New that falls back to the default on a file it cannot
\* deserialize and constructs the store anyway.
NewDefaultOnCorrupt(f) ==
  IF f.kind = "valid"
    THEN [ok |-> TRUE, data |-> f.val]
    ELSE [ok |-> TRUE, data |-> Default]

\* Database::new, lines 16-24: the initial value handed to new_custom, or
\* the early return of the deserialization error (`?` at line 19).
New(f) ==
  IF f.kind = "missing"
    THEN [ok |-> TRUE, data |-> Default]
    ELSE IF f.kind = "valid"
      THEN [ok |-> TRUE, data |-> f.val]
      ELSE [ok |-> FALSE, data |-> Default]

\* Database::new followed by Database::new_custom, line 29:
\* Inner { dirty: false, data }, the thread spawned and the handle cloned
\* to every foreground thread.  When new returns Err there is no store:
\* no thread has a handle and no persistence thread exists.
Init ==
  /\ file \in Files
  /\ data = New(file).data
  /\ dirty = FALSE
  /\ writer = None
  /\ readers = {}
  /\ poisoned = FALSE
  /\ tpc = [t \in Threads |-> IF New(file).ok THEN "idle" ELSE "nohandle"]
  /\ panicking = [t \in Threads |-> FALSE]
  /\ lpc = IF New(file).ok THEN "check" ELSE "unspawned"
  /\ polled = FALSE
  /\ foldLoad \in BOOLEAN
  /\ acquired = 0
  /\ releases = 0
  /\ committed = New(file).data
  /\ muts = 0
  /\ marks = 0
  /\ lastRel = [marks |-> 0, mutated |-> FALSE, panicked |-> FALSE]
  /\ saveCalls = 0
  /\ arg = NoVal
  /\ persisted = NoVal
  /\ saveFails = 0
  /\ everFailed = FALSE
  /\ everRead = FALSE
  /\ relAtRead = 0

\* ---- foreground: Database::get / get_mut and the guards ----

\* Variant of Get that hands out a ReadGuard while a writer holds the lock.
GetNoWriterCheck(t) ==
  /\ tpc[t] = "idle"
  /\ ~poisoned
  /\ readers' = readers \cup {t}
  /\ tpc' = [tpc EXCEPT ![t] = "reading"]
  /\ UNCHANGED <<data, dirty, writer, poisoned, panicking, foldLoad,
                 everFailed, everRead, file>>
  /\ UNCHANGED loopVars
  /\ UNCHANGED histVars

\* Variant of Get that recovers the guard from a PoisonError instead of
\* unwrapping.
GetIgnorePoison(t) ==
  /\ tpc[t] = "idle"
  /\ writer = None
  /\ readers' = readers \cup {t}
  /\ tpc' = [tpc EXCEPT ![t] = "reading"]
  /\ UNCHANGED <<data, dirty, writer, poisoned, panicking, foldLoad,
                 everFailed, everRead, file>>
  /\ UNCHANGED loopVars
  /\ UNCHANGED histVars

\* RwLock::read succeeds when no writer holds the lock; unwrap() needs it
\* not to be poisoned.
Get(t) ==
  /\ tpc[t] = "idle"
  /\ writer = None
  /\ ~poisoned
  /\ readers' = readers \cup {t}
  /\ tpc' = [tpc EXCEPT ![t] = "reading"]
  /\ UNCHANGED <<data, dirty, writer, poisoned, panicking, foldLoad,
                 everFailed, everRead, file>>
  /\ UNCHANGED loopVars
  /\ UNCHANGED histVars

\* Variant of GetMut that does not wait for the readers to leave.
GetMutNoReaderCheck(t) ==
  /\ tpc[t] = "idle"
  /\ acquired < MaxWrites
  /\ writer = None
  /\ ~poisoned
  /\ writer' = t
  /\ tpc' = [tpc EXCEPT ![t] = "writing"]
  /\ acquired' = acquired + 1
  /\ muts' = 0
  /\ marks' = 0
  /\ UNCHANGED <<data, dirty, readers, poisoned, panicking, foldLoad,
                 releases, committed, lastRel, everFailed, everRead, file>>
  /\ UNCHANGED loopVars

\* RwLock::write succeeds when nobody holds the lock.
GetMut(t) ==
  /\ tpc[t] = "idle"
  /\ acquired < MaxWrites
  /\ writer = None
  /\ readers = {}
  /\ ~poisoned
  /\ writer' = t
  /\ tpc' = [tpc EXCEPT ![t] = "writing"]
  /\ acquired' = acquired + 1
  /\ muts' = 0
  /\ marks' = 0
  /\ UNCHANGED <<data, dirty, readers, poisoned, panicking, foldLoad,
                 releases, committed, lastRel, everFailed, everRead, file>>
  /\ UNCHANGED loopVars

\* read()/write() return Err(PoisonError) on a poisoned lock; unwrap()
\* panics and the guard inside the error is dropped at once.
GetPoisoned(t) ==
  /\ tpc[t] = "idle"
  /\ poisoned
  /\ writer = None
  /\ tpc' = [tpc EXCEPT ![t] = "failed"]
  /\ everFailed' = TRUE
  /\ UNCHANGED <<data, dirty, panicking, foldLoad, everRead, file>>
  /\ UNCHANGED lockVars
  /\ UNCHANGED loopVars
  /\ UNCHANGED histVars

\* Variant of ReadDrop that marks the container dirty like a WriteGuard.
ReadDropMarks(t) ==
  /\ tpc[t] = "reading"
  /\ readers' = readers \ {t}
  /\ tpc' = [tpc EXCEPT ![t] = "idle"]
  /\ dirty' = TRUE
  /\ everRead' = TRUE
  /\ UNCHANGED <<data, writer, poisoned, panicking, foldLoad, everFailed,
                 file>>
  /\ UNCHANGED loopVars
  /\ UNCHANGED histVars

\* ReadGuard goes out of scope: RwLockReadGuard releases the read lock.
ReadDrop(t) ==
  /\ tpc[t] = "reading"
  /\ readers' = readers \ {t}
  /\ tpc' = [tpc EXCEPT ![t] = "idle"]
  /\ everRead' = TRUE
  /\ UNCHANGED <<data, dirty, writer, poisoned, panicking, foldLoad,
                 everFailed, file>>
  /\ UNCHANGED loopVars
  /\ UNCHANGED histVars

\* A thread drops its clone of the handle (Arc of line 12).  The closure
\* of line 31 owns another Arc, so the container and the persistence
\* thread are untouched.
HandleDrop(t) ==
  /\ tpc[t] = "idle"
  /\ tpc' = [tpc EXCEPT ![t] = "nohandle"]
  /\ UNCHANGED <<data, dirty, panicking, foldLoad, everFailed, everRead,
                 file>>
  /\ UNCHANGED lockVars
  /\ UNCHANGED loopVars
  /\ UNCHANGED histVars

\* WriteGuard::deref_mut followed by an assignment to the payload.
Mutate(t, v) ==
  /\ tpc[t] = "writing"
  /\ ~panicking[t]
  /\ muts < MaxMut
  /\ data' = v
  /\ muts' = muts + 1
  /\ UNCHANGED <<dirty, tpc, panicking, foldLoad, acquired, releases,
                 committed, marks, lastRel, everFailed, everRead, file>>
  /\ UNCHANGED lockVars
  /\ UNCHANGED loopVars

\* The holder of the write guard panics; unwinding will drop the guard.
Panic(t) ==
  /\ tpc[t] = "writing"
  /\ ~panicking[t]
  /\ panicking' = [panicking EXCEPT ![t] = TRUE]
  /\ UNCHANGED <<data, dirty, tpc, foldLoad, everFailed, everRead, file>>
  /\ UNCHANGED lockVars
  /\ UNCHANGED loopVars
  /\ UNCHANGED histVars

\* Variant of DropMark that marks dirty only when deref_mut was used.
DropMarkIfMutated(t) ==
  /\ tpc[t] = "writing"
  /\ writer = t
  /\ dirty' = (dirty \/ muts > 0)
  /\ marks' = marks + (IF muts > 0 THEN 1 ELSE 0)
  /\ tpc' = [tpc EXCEPT ![t] = "dropping"]
  /\ UNCHANGED <<data, panicking, foldLoad, acquired, releases, committed,
                 muts, lastRel, everFailed, everRead, file>>
  /\ UNCHANGED lockVars
  /\ UNCHANGED loopVars

\* WriteGuard::drop, line 89: self.0.dirty = true (the lock is still held:
\* the RwLockWriteGuard field is dropped after this body).
DropMark(t) ==
  /\ tpc[t] = "writing"
  /\ writer = t
  /\ dirty' = TRUE
  /\ marks' = marks + 1
  /\ tpc' = [tpc EXCEPT ![t] = "dropping"]
  /\ UNCHANGED <<data, panicking, foldLoad, acquired, releases, committed,
                 muts, lastRel, everFailed, everRead, file>>
  /\ UNCHANGED lockVars
  /\ UNCHANGED loopVars

\* The RwLockWriteGuard field is dropped: the lock is poisoned if the
\* thread is panicking, then released.
Unlock(t) ==
  /\ tpc[t] = "dropping"
  /\ writer = t
  /\ writer' = None
  /\ poisoned' = (poisoned \/ panicking[t])
  /\ tpc' = [tpc EXCEPT ![t] = IF panicking[t] THEN "failed" ELSE "idle"]
  /\ releases' = releases + 1
  /\ committed' = data
  /\ lastRel' = [marks |-> marks, mutated |-> muts > 0,
                 panicked |-> panicking[t]]
  /\ UNCHANGED <<data, dirty, readers, panicking, foldLoad, acquired, muts,
                 marks, everFailed, everRead, file>>
  /\ UNCHANGED loopVars

\* Write guards whose drop (line 89) has run so far.
Dropped == releases + Cardinality({t \in Threads : tpc[t] = "dropping"})

\* ---- persistence thread, lines 31-43 (no lock is taken) ----

\* Variant of LoopCheck in which the persistence thread takes a read lock
\* for the duration of save (reader 0 is the persistence thread).
LoopCheckHoldsLock ==
  /\ lpc = "check"
  /\ ~(foldLoad /\ polled)
  /\ IF dirty
       THEN /\ lpc' = "save"
            /\ saveCalls' = saveCalls + 1
            /\ arg' = data
            /\ readers' = readers \cup {0}
            /\ UNCHANGED polled
       ELSE /\ polled' = TRUE
            /\ UNCHANGED <<lpc, saveCalls, arg, readers>>
  /\ UNCHANGED <<data, dirty, writer, poisoned, tpc, panicking, foldLoad,
                 persisted, saveFails, relAtRead, everFailed, everRead, file>>
  /\ UNCHANGED histVars

\* line 39: if r.dirty { save(&r.data) ... } -- the load and, when it
\* yields true, the invocation of save.
LoopCheck ==
  /\ lpc = "check"
  /\ ~(foldLoad /\ polled)
  /\ IF dirty
       THEN /\ lpc' = "save"
            /\ saveCalls' = saveCalls + 1
            /\ arg' = data
            /\ UNCHANGED polled
       ELSE /\ polled' = TRUE
            /\ UNCHANGED <<lpc, saveCalls, arg>>
  /\ UNCHANGED <<data, dirty, tpc, panicking, foldLoad, persisted,
                 saveFails, relAtRead, everFailed, everRead, file>>
  /\ UNCHANGED lockVars
  /\ UNCHANGED histVars

\* line 40: save reads the payload through the reference and returns.
LoopSaveReturn ==
  /\ lpc = "save"
  /\ persisted' = data
  /\ relAtRead' = Dropped
  /\ lpc' = "clear"
  /\ UNCHANGED <<data, dirty, tpc, panicking, polled, foldLoad, saveCalls,
                 arg, saveFails, everFailed, everRead, file>>
  /\ UNCHANGED lockVars
  /\ UNCHANGED histVars

\* Variant of LoopSaveFail that clears dirty before the failure surfaces.
LoopSaveFailClears ==
  /\ lpc = "save"
  /\ lpc' = "dead"
  /\ dirty' = FALSE
  /\ saveFails' = saveFails + 1
  /\ UNCHANGED <<data, tpc, panicking, polled, foldLoad, saveCalls,
                 arg, persisted, relAtRead, everFailed, everRead, file>>
  /\ UNCHANGED lockVars
  /\ UNCHANGED histVars

\* Variant of LoopSaveFail in which the panic of save unwinds through a
\* lock guard held by the persistence thread and poisons the lock.
LoopSaveFailPoisons ==
  /\ lpc = "save"
  /\ lpc' = "dead"
  /\ poisoned' = TRUE
  /\ saveFails' = saveFails + 1
  /\ UNCHANGED <<data, dirty, writer, readers, tpc, panicking, polled,
                 foldLoad, saveCalls, arg, persisted, relAtRead, everFailed,
                 everRead, file>>
  /\ UNCHANGED histVars

\* line 40 with the save closure of line 22: a failing save panics
\* (unwrap), which ends the persistence thread before line 41.
LoopSaveFail ==
  /\ lpc = "save"
  /\ lpc' = "dead"
  /\ saveFails' = saveFails + 1
  /\ UNCHANGED <<data, dirty, tpc, panicking, polled, foldLoad, saveCalls,
                 arg, persisted, relAtRead, everFailed, everRead, file>>
  /\ UNCHANGED lockVars
  /\ UNCHANGED histVars

\* Variant of LoopClear that goes back to the check without clearing dirty.
LoopClearKeeps ==
  /\ lpc = "clear"
  /\ lpc' = "check"
  /\ polled' = TRUE
  /\ UNCHANGED <<data, dirty, tpc, panicking, foldLoad, saveCalls, arg,
                 persisted, saveFails, relAtRead, everFailed, everRead, file>>
  /\ UNCHANGED lockVars
  /\ UNCHANGED histVars

\* line 41: r.dirty = false, then back to the top of the loop.
LoopClear ==
  /\ lpc = "clear"
  /\ dirty' = FALSE
  /\ lpc' = "check"
  /\ polled' = TRUE
  /\ UNCHANGED <<data, tpc, panicking, foldLoad, saveCalls, arg, persisted,
                 saveFails, relAtRead, everFailed, everRead, file>>
  /\ UNCHANGED lockVars
  /\ UNCHANGED histVars

LoopStep == LoopCheck \/ LoopSaveReturn \/ LoopClear

Next ==
  \/ \E t \in Threads : Get(t)
  \/ \E t \in Threads : GetMut(t)
  \/ \E t \in Threads : GetPoisoned(t)
  \/ \E t \in Threads : ReadDrop(t)
  \/ \E t \in Threads : HandleDrop(t)
  \/ \E t \in Threads, v \in Values : Mutate(t, v)
  \/ \E t \in Threads : Panic(t)
  \/ \E t \in Threads : DropMark(t)
  \/ \E t \in Threads : Unlock(t)
  \/ LoopCheck
  \/ LoopSaveReturn
  \/ LoopSaveFail
  \/ LoopClear

Spec == Init /\ [][Next]_vars

\* The persistence thread is an OS thread of its own that never blocks:
\* it is scheduled as long as it has a step to take.  A guard that goes
\* out of scope is dropped.  Failures (Panic, LoopSaveFail) and new
\* acquisitions are not forced.
FairSpec ==
  /\ Spec
  /\ WF_vars(LoopStep)
  /\ \A t \in Threads : WF_vars(DropMark(t) \/ Unlock(t))

TypeOK ==
  /\ data \in Values
  /\ dirty \in BOOLEAN
  /\ writer \in Threads \cup {None}
  /\ readers \subseteq Threads
  /\ poisoned \in BOOLEAN
  /\ tpc \in [Threads -> {"idle", "reading", "writing", "dropping", "failed",
                          "nohandle"}]
  /\ lpc \in {"check", "save", "clear", "dead", "unspawned"}
  /\ file \in Files
  /\ relAtRead \in 0..MaxWrites
  /\ saveCalls \in 0..MaxWrites
  /\ persisted \in Values \cup {NoVal}
\* ---- guard predicates ----
WriteHeld(t) == tpc[t] \in {"writing", "dropping"}
ReadHeld(t)  == tpc[t] = "reading"
LoopAccess   == LoopCheck \/ LoopSaveReturn \/ LoopClear

\* ---- claims ----

\* C1 (eventual durability, final-state form): once a write guard has
\* been released and the persistence loop is back at its check with
\* nothing left to save (dirty = false, no writer), the value the last
\* save was given and read is the value left by the last released write
\* guard.
C1_EventualDurability ==
  (releases > 0 /\ writer = None /\ lpc = "check" /\ ~dirty)
    => persisted = committed

\* C2 (guard mutual exclusion): while a thread holds a WriteGuard no
\* other thread holds a WriteGuard or a ReadGuard.
C2_MutualExclusion ==
  \A t \in Threads : WriteHeld(t) =>
    \A u \in Threads \ {t} : ~WriteHeld(u) /\ ~ReadHeld(u)

\* C2 witness: all foreground threads hold a ReadGuard at once, after a
\* write guard has been held and released.
C2_Witness ==
  /\ releases > 0
  /\ Cardinality({t \in Threads : ReadHeld(t)}) >= 2

\* C3 (loop accesses are made under the lock): the persistence loop never
\* reads dirty, reads the value for save or clears dirty while a
\* foreground WriteGuard is held.
C3_LoopUnderLock ==
  [][LoopAccess => writer = None]_vars

\* C4 (dirty-marking on release): a thread stops using its WriteGuard
\* only by a step that stores dirty = true while it still holds the write
\* lock, and when the lock is relinquished that guard has made exactly one
\* such store, mutation or not, panic or not.
C4_MarkOnRelease ==
  [][\A t \in Threads :
       /\ (tpc[t] = "writing" /\ tpc'[t] # "writing")
            => (dirty' = TRUE /\ writer' = t /\ marks' = 1)
       /\ (writer = t /\ writer' # t)
            => (marks = 1 /\ lastRel'.marks = 1)]_vars

\* C4 witness: a guard whose holder panicked without mutating anything
\* has been released, and dirty is set.
C4_Witness ==
  /\ releases > 0
  /\ lastRel.panicked
  /\ ~lastRel.mutated
  /\ lastRel.marks = 1
  /\ dirty

\* C5 (dirty-flag invariant): with no WriteGuard held, dirty = false
\* implies that the value equals the value passed to the most recent
\* completed save, or that no write guard was ever released.
C5_DirtyInvariant ==
  (writer = None /\ ~dirty) => (releases = 0 \/ data = persisted)

\* C6 (failed save keeps dirty): after an invocation of save has failed
\* the dirty flag is still true.
C6_FailedSaveKeepsDirty ==
  saveFails > 0 => dirty = TRUE

\* C6 witness: a save has failed after a mutating write was released.
C6_Witness ==
  /\ saveFails > 0
  /\ releases > 0
  /\ lastRel.mutated

\* C7 (a failed save does not end the loop): after a save has failed the
\* persistence loop is still running.
C7_LoopSurvivesFailedSave ==
  saveFails > 0 => lpc # "dead"

C9_ReadsSeeLastWrite ==
  /\ writer = None => data = committed
  /\ \A t \in Threads : ReadHeld(t) => data = committed

\* C9 witness: a ReadGuard is held over a value written by a released
\* WriteGuard while the persistence loop is between save and clear.
C9_Witness ==
  /\ \E t \in Threads : ReadHeld(t)
  /\ releases > 0
  /\ committed # 0
  /\ lpc = "clear"

\* C10 (poisoning is fatal): once the lock is poisoned no thread holds a
\* ReadGuard or a WriteGuard.
C10_PoisonFatal ==
  poisoned => \A t \in Threads : ~WriteHeld(t) /\ ~ReadHeld(t)

\* C10 witness: the lock is poisoned by a holder that had mutated the
\* value, and a later get / get_mut has panicked on it.
C10_Witness ==
  /\ poisoned
  /\ everFailed
  /\ lastRel.panicked
  /\ lastRel.mutated
\* C11 (a save failure stays in the background): after a save has failed,
\* as long as no foreground holder of a WriteGuard has panicked, the lock
\* is not poisoned, get() can be taken by every idle thread when no
\* WriteGuard is held and get_mut() when no guard is held at all.
C11_SaveFailureContained ==
  (saveFails > 0 /\ \A u \in Threads : ~panicking[u]) =>
    /\ ~poisoned
    /\ \A t \in Threads : tpc[t] = "idle" =>
         /\ (\A u \in Threads : ~WriteHeld(u)) => ENABLED Get(t)
         /\ ( /\ \A u \in Threads : ~WriteHeld(u) /\ ~ReadHeld(u)
              /\ acquired < MaxWrites ) => ENABLED GetMut(t)

\* C11 witness: after a failed save a thread holds a WriteGuard it
\* acquired afterwards and has written through it.
C11_Witness ==
  /\ saveFails > 0
  /\ \A u \in Threads : ~panicking[u]
  /\ \E t \in Threads : tpc[t] = "writing"
  /\ releases = 1
  /\ acquired = 2
  /\ muts > 0

\* C12 (a write during a save keeps dirty): when the loop finishes a cycle
\* in which the drop of a WriteGuard ran after save read the value, dirty
\* is true at the end of that cycle.
C12_WriteDuringSaveKeepsDirty ==
  [][(lpc = "clear" /\ lpc' = "check" /\ Dropped > relAtRead)
       => dirty' = TRUE]_vars

\* C13 (save runs outside the lock): while a save is in flight and the
\* lock is not poisoned, every idle thread can take get() when no thread
\* holds a WriteGuard and get_mut() when no thread holds any guard.
C13_SaveOutsideLock ==
  (lpc = "save" /\ ~poisoned) =>
    \A t \in Threads : tpc[t] = "idle" =>
      /\ (\A u \in Threads : ~WriteHeld(u)) => ENABLED Get(t)
      /\ ( /\ \A u \in Threads : ~WriteHeld(u) /\ ~ReadHeld(u)
           /\ acquired < MaxWrites ) => ENABLED GetMut(t)

\* C13 witness: a WriteGuard is held by a thread that acquired it while
\* the save now in flight was already running.
C13_Witness ==
  /\ lpc = "save"
  /\ \E t \in Threads : tpc[t] = "writing"
  /\ acquired = saveCalls + 1
  /\ acquired > releases
  /\ releases = saveCalls

\* C14 (reads have no effect on persistence): taking and releasing a
\* ReadGuard leaves dirty and the value unchanged, and as long as no
\* WriteGuard was ever acquired dirty is false and save is not invoked.
C14_ReadsLeaveNoTrace ==
  [][ /\ (\E t \in Threads : Get(t) \/ ReadDrop(t))
           => (dirty' = dirty /\ data' = data)
      /\ acquired' = 0 => (saveCalls' = 0 /\ dirty' = FALSE) ]_vars

\* C14 witness: only reads so far, one released and one still held, the
\* persistence loop has polled, and nothing was saved.
C14_Witness ==
  /\ acquired = 0
  /\ everRead
  /\ \E t \in Threads : ReadHeld(t)
  /\ polled
  /\ saveCalls = 0
  /\ ~dirty

\* C15 (Database::new): a file that cannot be opened gives a store that
\* starts from the default value with dirty = false; a file that opens
\* but does not deserialize gives no store at all: no handle, no
\* persistence loop, and save is never invoked.
C15_NewLoadsOrFails ==
  /\ file.kind = "corrupt" =>
       /\ lpc = "unspawned"
       /\ \A t \in Threads : tpc[t] = "nohandle"
       /\ saveCalls = 0
       /\ persisted = NoVal
  /\ (file.kind = "missing" /\ acquired = 0) =>
       /\ lpc # "unspawned"
       /\ data = Default
       /\ dirty = FALSE

\* C15 witness: new was given a file that does not deserialize.
C15_Witness ==
  /\ file.kind = "corrupt"
  /\ lpc = "unspawned"
  /\ saveCalls = 0

Snapshot ==
  IF \E t \in Threads : tpc[t] = "dropping" THEN data ELSE committed

\* C17 (save sees committed snapshots): the value does not change while a
\* save is in flight, and the value save reads is the value left by the
\* last dropped WriteGuard, never that of a mutation still in progress.
C17_SaveSeesSnapshot ==
  [][ /\ lpc = "save" => data' = data
      /\ (lpc = "save" /\ lpc' = "clear") => persisted' = Snapshot' ]_vars

\* Every handle of a constructed store has been dropped.
StoreAbandoned ==
  /\ file.kind # "corrupt"
  /\ \A t \in Threads : tpc[t] = "nohandle"

\* C18 (the loop outlives the handles): after every handle was dropped the
\* persistence loop is never in a terminal state, and a write that is
\* still unsaved at that point is eventually passed to save.
C18_LoopOutlivesHandles ==
  /\ [](StoreAbandoned => lpc # "dead")
  /\ ((StoreAbandoned /\ dirty /\ lpc = "check") ~> lpc = "save")

====
